---- MODULE Spec2Model ----
(***************************************************************************)
(* Zman clock: the virtual clock (offset / speed / day jump), the zmanim   *)
(* engine, the Hebrew-date rollover, the clock hand, the Hebrew-calendar    *)
(* display with its optional zmanim, and the location change path, as a    *)
(* state machine over the shared `state` object of config.js, the module   *)
(* and window flags of main.js and the browser's timers.                   *)
(* Instants are milliseconds as in the source, counted from the UTC start  *)
(* of civil day OriginDay of the epoch, so that the days of a run are days  *)
(* of Nisan 5785 and the instants stay small.                               *)
(***************************************************************************)
EXTENDS Integers, Sequences, FiniteSets, TLC

VARIABLES
    latitude, longitude, timezone, observer,     \* state.latitude .. state.observer
    daysAhead, offset, speedMultiplier,          \* state.daysAhead, state.offset, state.speedMultiplier
    intervalId, clockIntervalId,                 \* state.intervalId, state.clockIntervalId
    date, hdate, sunTimes,                       \* state.date, state.hdate, state.sunTimes
    polarLocationActive,                         \* window._polarLocationActive
    polarPopup,                                  \* the #polar-popup element exists
    lastSlowUpdate,                              \* main.js module variable
    displayDow,                                  \* text of #day-of-week
    currentGregorianDate,                        \* calendar.js: currentGregorianDate
    currentHebrewDate,                           \* calendar.js: currentHebrewDate (year, month, day)
    currentMode,                                 \* calendar.js: currentMode
    map,                                         \* locationState.map is set
    customLon,                                   \* locationState.customLon
    customLat,                                   \* locationState.customLat
    holiday,                                     \* texts of #holiday
    omer,                                        \* text of #omer (0: empty)
    specialDayStatus,                            \* astronomy.js module variable
    sunTimesElements,                            \* ids of the elements of #sun-times
    prevTotalDegrees,                            \* state.prevTotalDegrees, in thousandths of a degree
    accumulatedRotation,                         \* state.accumulatedRotation, in thousandths of a degree
    timers,                                      \* the browser's active setInterval timers
    now,                                         \* Date.now()
    geoPending,                                  \* getCurrentPosition of getLocation() not yet answered
    pending,                                     \* applyCustomLocation calls awaiting getTimezoneForLocation
    issued,                                      \* number of applyCustomLocation calls made so far
    skew,                                        \* fine-timer firings since the last updateClock call
    hist,                                        \* history of the run, kept for the properties
    zq, zres                                     \* oracle answers given to calcSunTimes, and its outcome

vars == <<latitude, longitude, timezone, observer, daysAhead, offset, speedMultiplier,
          intervalId, clockIntervalId, date, hdate, sunTimes, polarLocationActive,
          polarPopup, lastSlowUpdate, displayDow, currentGregorianDate, currentHebrewDate, currentMode, map, customLon, customLat,
          holiday, omer, specialDayStatus, sunTimesElements,
          prevTotalDegrees, accumulatedRotation, timers, now, geoPending, pending,
          issued, skew, hist, zq, zres>>

-----------------------------------------------------------------------------
(* Bounds of the model *)

MaxElapse == 1          \* real time advances at most this many steps
MaxDays == 1            \* |daysAhead| explored
MaxOffsetSteps == 10    \* |offset| explored, in steps of 10 s
MaxSkew == 1            \* fine-timer firings between two updateClock calls
MaxRequests == 2        \* applyCustomLocation calls explored
LocMaxOffsetSteps == 1  \* |offset| explored while the place changes, in steps of 10 s
StartDay == 10          \* civil day (UTC day number) the run starts in
MaxDayHours == 44       \* hours of real time a day-long run covers
MaxTurns == 5               \* full turns the hand may accumulate either way
MaxPickBack == 16           \* days before the run the picker sends the clock to
MaxPickAhead == 8           \* days after the run the picker sends the clock to

(* null / undefined of a number-valued field *)
NULL == -1

-----------------------------------------------------------------------------
(* Time *)

MS_SECOND == 1000
MS_MINUTE == 60 * MS_SECOND
MS_HOUR == 60 * MS_MINUTE
MS_DAY == 24 * 60 * 60 * 1000

ElapseMs == 10 * MS_SECOND

(* floor(a * n / d) for a >= 0 without leaving 32 bits *)
MulDiv(a, n, d) == (a \div d) * n + ((a % d) * n) \div d

Max(a, b) == IF a >= b THEN a ELSE b

-----------------------------------------------------------------------------
(* Time zones: Intl.DateTimeFormat with timeZone: tz.  The zones of the     *)
(* model and their UTC offsets.                                             *)

LocalTz == "Asia/Jerusalem"

TzOffsetMs(tz) ==
    CASE tz = "Asia/Jerusalem" -> 2 * MS_HOUR
      [] tz = "Europe/Oslo" -> 1 * MS_HOUR
      [] tz = "Europe/Paris" -> 1 * MS_HOUR
      [] tz = "Arctic/Longyearbyen" -> 1 * MS_HOUR
      [] tz = "Europe/London" -> 0
      [] OTHER -> 0

(* state.timezone || Intl.DateTimeFormat().resolvedOptions().timeZone *)
EffectiveTz(tz) == IF tz = "null" THEN LocalTz ELSE tz

(* year/month/day parts of an instant in a zone, as one civil day number *)
CivilDay(instant, tz) == (instant + TzOffsetMs(tz)) \div MS_DAY

(* the instant of 00:00 of a civil day in a zone *)
MidnightOf(day, tz) == day * MS_DAY - TzOffsetMs(tz)

-----------------------------------------------------------------------------
(* Places of the model: latitude, longitude, and the zone the lookup gives *)

Home == [lat |-> 32, lon |-> 35]
Oslo == [lat |-> 60, lon |-> 11]
Svalbard == [lat |-> 78, lon |-> 16]
Places == {Home, Oslo, Svalbard}

(* a place with a winter day shorter than an hour; the zmanim engine is     *)
(* run on its events, no location change goes there                         *)
Tromso == [lat |-> 69, lon |-> 19]

ApiTimezone(lat, lon) ==
    CASE lat = 32 -> "Asia/Jerusalem"
      [] lat = 60 -> "Europe/Oslo"
      [] lat = 69 -> "Europe/Oslo"
      [] lat = 78 -> "Arctic/Longyearbyen"
      [] OTHER -> LocalTz

(* estimateTimezoneFromLongitude: the fallback when the API fails *)
estimateTimezoneFromLongitude(lon, lat) ==
    IF lat > 60 /\ lon > -30 /\ lon < 40 THEN "Europe/London"
    ELSE IF lat > 20 /\ lat < 45 /\ lon > 25 /\ lon < 45 THEN "Asia/Jerusalem"
    ELSE LET offsetHours == (2 * lon + 15) \div 30       \* Math.round(lon / 15)
         IN CASE offsetHours = 0 -> "Europe/London"
              [] offsetHours = 1 -> "Europe/Paris"
              [] offsetHours = 2 -> "Europe/Berlin"
              [] OTHER -> LocalTz

-----------------------------------------------------------------------------
(* The astronomical oracle (astronomy-engine): the sun's events at a place. *)
(* Each kind of event happens once a day, or not at all on the days the sun *)
(* does not reach the altitude: at a fixed UTC time of day around the days  *)
(* of the run, the evening events ten minutes earlier on the days of early  *)
(* spring, a week and more before it.                                       *)

EventKinds == {"rise", "set", "rise161", "set161", "rise102", "set85"}

EventPhase(lat, kind) ==
    CASE lat = 32 ->
           (CASE kind = "rise161" -> 2 * MS_HOUR + 40 * MS_MINUTE
              [] kind = "rise102" -> 3 * MS_HOUR + 10 * MS_MINUTE
              [] kind = "rise" -> 4 * MS_HOUR
              [] kind = "set" -> 16 * MS_HOUR
              [] kind = "set85" -> 16 * MS_HOUR + 40 * MS_MINUTE
              [] kind = "set161" -> 17 * MS_HOUR + 20 * MS_MINUTE)
      [] lat = 69 ->
           (CASE kind = "rise161" -> 5 * MS_HOUR + 30 * MS_MINUTE
              [] kind = "rise102" -> 7 * MS_HOUR
              [] kind = "rise" -> 10 * MS_HOUR
              [] kind = "set" -> 10 * MS_HOUR + 40 * MS_MINUTE
              [] kind = "set85" -> 13 * MS_HOUR + 30 * MS_MINUTE
              [] kind = "set161" -> 15 * MS_HOUR)
      [] OTHER ->
           (CASE kind = "rise161" -> 0 * MS_HOUR + 30 * MS_MINUTE
              [] kind = "rise102" -> 1 * MS_HOUR + 30 * MS_MINUTE
              [] kind = "rise" -> 3 * MS_HOUR
              [] kind = "set" -> 20 * MS_HOUR
              [] kind = "set85" -> 21 * MS_HOUR + 30 * MS_MINUTE
              [] kind = "set161" -> 22 * MS_HOUR + 30 * MS_MINUTE)

(* the sun does not reach the event on UTC day k at this latitude *)
EventMissing(lat, kind, k) ==
    \/ lat = 78
    \/ lat = 60 /\ kind \in {"rise161", "set161"} /\ k > StartDay

(* Astronomy.SearchRiseSet / SearchAltitude(..., start, 1, ...): the first   *)
(* event of the kind at or after start, within one day; NULL when none      *)
SeasonShift(lat, kind, k) ==
    IF lat = 32 /\ kind \in {"set", "set85", "set161"} /\ k < StartDay - 7
    THEN 10 * MS_MINUTE
    ELSE 0

EventAt(lat, kind, k) == k * MS_DAY + EventPhase(lat, kind) - SeasonShift(lat, kind, k)

Search(lat, kind, start) ==
    LET k0 == start \div MS_DAY
        k == IF EventAt(lat, kind, k0) >= start THEN k0 ELSE k0 + 1
    IN IF EventMissing(lat, kind, k) THEN NULL ELSE EventAt(lat, kind, k)

QueryNames == {"sunrise", "sunset", "nextSunrise", "prevSunset",
               "dawn", "rTamDegrees", "mshyaker", "tzeis"}

(* the eight searches of calcSunTimes for the civil day of `instant` in tz *)
OracleQueries(lat, lon, tz, instant) ==
    LET todayDate == MidnightOf(CivilDay(instant, tz), tz)
        nextDate == todayDate + MS_DAY
        prevDate == todayDate - MS_DAY
    IN [sunrise |-> Search(lat, "rise", todayDate),
        sunset |-> Search(lat, "set", todayDate),
        nextSunrise |-> Search(lat, "rise", nextDate),
        prevSunset |-> Search(lat, "set", prevDate),
        dawn |-> Search(lat, "rise161", todayDate),
        rTamDegrees |-> Search(lat, "set161", todayDate),
        mshyaker |-> Search(lat, "rise102", todayDate),
        tzeis |-> Search(lat, "set85", todayDate)]

-----------------------------------------------------------------------------
(* astronomy.js: calcSunTimes.  ZmanimFrom is the part after the searches:  *)
(* q holds the eight search results (NULL: the search returned null).      *)

NoSunTimes ==
    [sunrise |-> NULL, sunset |-> NULL, alos |-> NULL, misheyakir |-> NULL,
     tzeis |-> NULL, chatzos |-> NULL, rTam |-> NULL, plagHamincha |-> NULL,
     minchaKetana |-> NULL, minchaGedola |-> NULL, shemaGra |-> NULL,
     tefilaGra |-> NULL, shemaMga |-> NULL, chatzosLayla |-> NULL,
     prevSunset |-> NULL, nextSunrise |-> NULL,
     candleLighting |-> NULL,                    \* the key of the two candles
     biurChametz |-> NULL]

(* a variant that does not ask for the evening -16.1 degrees search *)
ZmanimFrom_noEveningCheck(q, instant) ==
    IF q.sunrise = NULL \/ q.sunset = NULL \/ q.nextSunrise = NULL \/ q.prevSunset = NULL
    THEN [polar |-> TRUE, sunTimes |-> NoSunTimes]
    ELSE IF q.dawn = NULL
    THEN [polar |-> TRUE, sunTimes |-> NoSunTimes]
    ELSE [polar |-> FALSE,
          sunTimes |-> [NoSunTimes EXCEPT !.sunrise = q.sunrise, !.sunset = q.sunset,
                                          !.alos = q.dawn,
                                          !.misheyakir = IF q.mshyaker # NULL
                                                         THEN q.mshyaker ELSE q.dawn,
                                          !.tzeis = IF q.tzeis # NULL
                                                    THEN q.tzeis ELSE q.sunset]]

(* a variant that always puts mincha gedola half a day-hour after midday *)
MinchaGedolaGap_noFloor(dayLengthMs) == dayLengthMs \div 24

(* Math.max(0.5 * 60 * 60 * 1000, dayHourMs / 2) *)
MinchaGedolaGap(dayLengthMs) == Max(30 * 60 * 1000, dayLengthMs \div 24)

ZmanimFrom(q, instant) ==
    IF q.sunrise = NULL \/ q.sunset = NULL \/ q.nextSunrise = NULL \/ q.prevSunset = NULL
    THEN [polar |-> TRUE, sunTimes |-> NoSunTimes]
    ELSE IF q.dawn = NULL \/ q.rTamDegrees = NULL
    THEN [polar |-> TRUE, sunTimes |-> NoSunTimes]
    ELSE
      LET dayLengthMs == q.sunset - q.sunrise
          mgaDayLengthMs == q.rTamDegrees - q.dawn
          rTam == q.sunset + 72 * 60 * 1000
          midnight == IF rTam <= instant
                      THEN q.sunset + (q.nextSunrise - q.sunset) \div 2
                      ELSE q.prevSunset + (q.sunrise - q.prevSunset) \div 2
          midday == q.sunrise + dayLengthMs \div 2
      IN [polar |-> FALSE,
          sunTimes |->
            [sunrise |-> q.sunrise,
             sunset |-> q.sunset,
             alos |-> q.dawn,
             misheyakir |-> IF q.mshyaker # NULL THEN q.mshyaker ELSE q.dawn,
             tzeis |-> IF q.tzeis # NULL THEN q.tzeis ELSE q.sunset,
             chatzos |-> midday,
             rTam |-> rTam,
             plagHamincha |-> q.sunrise + MulDiv(dayLengthMs, 43, 48),
             minchaKetana |-> q.sunrise + MulDiv(dayLengthMs, 19, 24),
             minchaGedola |-> midday + MinchaGedolaGap(dayLengthMs),
             shemaGra |-> q.sunrise + dayLengthMs \div 4,
             tefilaGra |-> q.sunrise + dayLengthMs \div 3,
             shemaMga |-> q.dawn + mgaDayLengthMs \div 4,
             chatzosLayla |-> midnight,
             prevSunset |-> q.prevSunset,
             nextSunrise |-> q.nextSunrise,
             candleLighting |-> NULL,
             biurChametz |-> NULL]]

(* calcSunTimes(latitude, longitude) on the world w: sets state.observer,    *)
(* then either throws the POLAR_LOCATION error or replaces state.sunTimes   *)
calcSunTimes(w, lat, lon) ==
    LET tz == EffectiveTz(w.timezone)
        z == ZmanimFrom(OracleQueries(lat, lon, tz, w.date), w.date)
        w1 == [w EXCEPT !.observer = <<lat, lon>>]
    IN IF z.polar
       THEN [polar |-> TRUE, w |-> w1]
       ELSE [polar |-> FALSE, w |-> [w1 EXCEPT !.sunTimes = z.sunTimes]]

-----------------------------------------------------------------------------
(* hebrew.js.  A Hebrew date is held as its day number (hebcal's absolute   *)
(* day); HDate(civil date) and next() are the library's.                    *)

HebrewDayShift == 719163 + 1373428

(* the civil day the instants are counted from: 1 April 2025, so that       *)
(* StartDay is Friday 11 April 2025, 13 Nisan 5785                          *)
OriginDay == 20179

HDate(civilDay) == civilDay + OriginDay + HebrewDayShift

HDateNext(hd) == hd + 1

(* weekday index (0 = Sunday) of a civil day; day 0 of the epoch is Thursday *)
DayOfWeek(civilDay) == (civilDay + OriginDay + 4) % 7

(* HDate.greg(): the civil day of a Hebrew date *)
HDateGreg(hd) == hd - HebrewDayShift - OriginDay

(* 1 Nisan 5785 is 30 March 2025; Adar before it has 29 days, Nisan 30,   *)
(* Iyyar 29; Sivan follows                                                  *)
Nisan1 == HDate(-2)

getMonth(hd) ==
    IF hd < Nisan1 THEN 12
    ELSE IF hd < Nisan1 + 30 THEN 1
    ELSE IF hd < Nisan1 + 59 THEN 2
    ELSE 3

getDate(hd) ==
    IF hd < Nisan1 THEN hd - (Nisan1 - 29) + 1
    ELSE IF hd < Nisan1 + 30 THEN hd - Nisan1 + 1
    ELSE IF hd < Nisan1 + 59 THEN hd - (Nisan1 + 30) + 1
    ELSE hd - (Nisan1 + 59) + 1

(* the day number of a date of the months Adar .. Sivan 5785 (our month     *)
(* numbers, Nisan = 1); an Adar II of this year, which has none, is Adar    *)
HDateOf(h) ==
    CASE h.month = 1 -> Nisan1 + h.day - 1
      [] h.month = 2 -> Nisan1 + 30 + h.day - 1
      [] h.month = 3 -> Nisan1 + 59 + h.day - 1
      [] OTHER -> Nisan1 - 29 + h.day - 1

(* jewish-date: toJewishDate(date), the month name taken through           *)
(* MONTH_NAME_TO_NUM; the Hebrew date of the daytime of the local civil day *)
toJewishDate(instant) ==
    LET hd == HDate(CivilDay(instant, LocalTz))
    IN [year |-> 5785, month |-> getMonth(hd), day |-> getDate(hd)]

(* jewish-date: toGregorianDate({year, monthName, day}), the month named    *)
(* through MONTH_TYPES; local midnight of the civil day                     *)
toGregorianDate(h) == MidnightOf(HDateGreg(HDateOf(h)), LocalTz)

(* hcal.HDate.isLeapYear *)
isHebrewLeapYear(year) == (7 * year + 1) % 19 < 7

(* the days of the years the picker visits: 5784 is a deficient leap year,  *)
(* 5785 a complete year, 5786 a regular one                                 *)
daysInYear(year) ==
    CASE year = 5784 -> 383
      [] year = 5785 -> 355
      [] OTHER -> 354

(* hcal: HDate.daysInMonth(month, year), the months numbered from Nisan = 1 *)
hcalDaysInMonth(month, year) ==
    IF month \in {2, 4, 6, 10, 13} THEN 29
    ELSE IF month = 12 /\ ~isHebrewLeapYear(year) THEN 29
    ELSE IF month = 8 /\ daysInYear(year) % 10 # 5 THEN 29
    ELSE IF month = 9 /\ daysInYear(year) % 10 = 3 THEN 29
    ELSE 30

(* calendar.js: toLibraryMonth *)
toLibraryMonth(ourMonth) ==
    IF ourMonth = 13 THEN 13
    ELSE IF ourMonth >= 7 THEN ourMonth - 6
    ELSE ourMonth + 6

(* calendar.js: getDaysInHebrewMonth: new hcal.HDate(1, hebcalMonth, year)  *)
(* (an Adar II of a year without one becomes Adar), then daysInMonth()      *)
getDaysInHebrewMonth(year, ourMonth) ==
    LET hebcalMonth == toLibraryMonth(ourMonth)
        mm == IF hebcalMonth = 13 /\ ~isHebrewLeapYear(year) THEN 12 ELSE hebcalMonth
    IN hcalDaysInMonth(mm, year)

(* hcal.HebrewCalendar.getHolidaysOnDate in Nisan 5785, where 14 Nisan is a *)
(* Sabbath and the fast of the firstborn moves to Thursday 12 Nisan         *)
getHolidaysOnDate(hd) ==
    LET dd == getDate(hd)
    IN IF getMonth(hd) # 1 THEN {}
       ELSE CASE dd = 12 -> {[name |-> "Ta'anit Bechorot", flags |-> {"MINOR_FAST"}]}
              [] dd = 14 -> {[name |-> "Erev Pesach", flags |-> {"EREV", "LIGHT_CANDLES"}],
                             [name |-> "Shabbat HaGadol", flags |-> {"SPECIAL_SHABBAT"}]}
              [] dd = 15 -> {[name |-> "Pesach I", flags |-> {"CHAG"}]}
              [] dd = 16 -> {[name |-> "Pesach II", flags |-> {"CHAG", "CHUL_ONLY"}],
                             [name |-> "Pesach II (CH''M)",
                              flags |-> {"CHOL_HAMOED", "IL_ONLY"}]}
              [] dd \in 17..20 -> {[name |-> "Pesach (CH''M)", flags |-> {"CHOL_HAMOED"}]}
              [] dd = 21 -> {[name |-> "Pesach VII", flags |-> {"CHAG"}]}
              [] dd = 22 -> {[name |-> "Pesach VIII", flags |-> {"CHAG", "CHUL_ONLY"}]}
              [] OTHER -> {}

(* the events of a date that apply at the place *)
EventsAt(hd, inIsr) ==
    {e \in getHolidaysOnDate(hd) :
        /\ ~(inIsr /\ "CHUL_ONLY" \in e.flags)
        /\ ~(~inIsr /\ "IL_ONLY" \in e.flags)}

(* inIsrael(lat, lon): the point is inside the polygon of il.json *)
inIsrael(lat, lon) == lat = 32 /\ lon = 35

checkYomTov(w, inIsr) ==
    \E e \in EventsAt(HDateNext(w.hdate), inIsr) : "CHAG" \in e.flags

getHolidays(w, inIsr) == {e.name : e \in EventsAt(w.hdate, inIsr)}

(* config.js: the mapping from date code to omer day *)
OMER_DAY ==
    116 :> 1 @@ 117 :> 2 @@ 118 :> 3 @@ 119 :> 4 @@ 120 :> 5 @@ 121 :> 6 @@
    122 :> 7 @@ 123 :> 8 @@ 124 :> 9 @@ 125 :> 10 @@ 126 :> 11 @@ 127 :> 12 @@
    128 :> 13 @@ 129 :> 14 @@ 130 :> 15 @@ 201 :> 16 @@ 202 :> 17 @@ 203 :> 18 @@
    204 :> 19 @@ 205 :> 20 @@ 206 :> 21 @@ 207 :> 22 @@ 208 :> 23 @@ 209 :> 24 @@
    210 :> 25 @@ 211 :> 26 @@ 212 :> 27 @@ 213 :> 28 @@ 214 :> 29 @@ 215 :> 30 @@
    216 :> 31 @@ 217 :> 32 @@ 218 :> 33 @@ 219 :> 34 @@ 220 :> 35 @@ 221 :> 36 @@
    222 :> 37 @@ 223 :> 38 @@ 224 :> 39 @@ 225 :> 40 @@ 226 :> 41 @@ 227 :> 42 @@
    228 :> 43 @@ 229 :> 44 @@ 301 :> 45 @@ 302 :> 46 @@ 303 :> 47 @@ 304 :> 48 @@
    305 :> 49

(* a variant whose window ends with the second month *)
getOmerCount_noSivan(w) ==
    LET mm == getMonth(w.hdate)
        dd == getDate(w.hdate)
        code == mm * 100 + dd
    IN IF (mm = 1 /\ dd >= 16) \/ mm = 2
       THEN IF code \in DOMAIN OMER_DAY THEN OMER_DAY[code] ELSE 0
       ELSE 0

(* getOmerCount: OMER_DAY[mm * 100 + dd], 0 when there is no count *)
getOmerCount(w) ==
    LET mm == getMonth(w.hdate)
        dd == getDate(w.hdate)
        code == mm * 100 + dd
    IN IF (mm = 1 /\ dd >= 16) \/ mm = 2 \/ (mm = 3 /\ dd < 6)
       THEN IF code \in DOMAIN OMER_DAY THEN OMER_DAY[code] ELSE 0
       ELSE 0

getSpecialDayStatus(w, inIsr) ==
    IF w.hdate = NULL THEN [isMinorFast |-> FALSE, showBiurChametz |-> FALSE]
    ELSE LET month == getMonth(w.hdate)
             day == getDate(w.hdate)
         IN [isMinorFast |->
                 \E e \in EventsAt(w.hdate, inIsr) : "MINOR_FAST" \in e.flags,
             showBiurChametz |->
                 \/ month = 1 /\ day = 14
                 \/ /\ month = 1 /\ day = 13
                    /\ DayOfWeek(HDateGreg(HDateNext(w.hdate))) = 6]

(* a variant that shows the civil day's date until civil midnight *)
updateHebrewDate_midnightRoll(w, tzeis) ==
    [w EXCEPT !.hdate = HDate(CivilDay(w.date, EffectiveTz(w.timezone)))]

(* a variant that still shows the civil day's date at the instant of tzeis *)
updateHebrewDate_lateRoll(w, tzeis) ==
    LET tz == EffectiveTz(w.timezone)
        todayHDate == HDate(CivilDay(w.date, tz))
    IN IF tzeis = NULL \/ w.date <= tzeis
       THEN [w EXCEPT !.hdate = todayHDate]
       ELSE [w EXCEPT !.hdate = HDateNext(todayHDate)]

(* updateHebrewDate(tzeis) *)
updateHebrewDate(w, tzeis) ==
    LET tz == EffectiveTz(w.timezone)
        todayHDate == HDate(CivilDay(w.date, tz))
    IN IF tzeis = NULL \/ w.date < tzeis
       THEN [w EXCEPT !.hdate = todayHDate]
       ELSE [w EXCEPT !.hdate = HDateNext(todayHDate)]

-----------------------------------------------------------------------------
(* ui.js: setDate *)

FRIDAY == 5

(* the candle-lighting part of setDate, hasChag being checkYomTov's answer: *)
(* displayDow.includes(Friday) looks at both names of a "today/tomorrow"    *)
(* text                                                                     *)
setCandleLighting(w, hasChag) ==
    LET tz == EffectiveTz(w.timezone)
        friday == \E i \in DOMAIN w.displayDow : w.displayDow[i] = FRIDAY
        sameDate == HDateGreg(w.hdate) = CivilDay(w.date, tz)
    IN IF (friday \/ hasChag) /\ sameDate
       THEN IF w.sunTimes.candleLighting = NULL
            THEN [w EXCEPT !.sunTimes.candleLighting =
                               w.sunTimes.sunset - 18 * MS_MINUTE]
            ELSE w
       ELSE IF "candleLighting" \in w.sunTimesElements /\ ~hasChag
       THEN [w EXCEPT !.sunTimesElements = @ \ {"candleLighting"},
                      !.sunTimes.candleLighting = NULL]
       ELSE w

(* a variant that shows the next day's name from sunset on *)
DowText_atSunset(w) ==
    LET dowIndex == DayOfWeek(CivilDay(w.date, EffectiveTz(w.timezone)))
    IN IF w.date >= w.sunTimes.sunset THEN <<(dowIndex + 1) % 7>> ELSE <<dowIndex>>

(* the text of #day-of-week *)
DowText(w) ==
    LET dowIndex == DayOfWeek(CivilDay(w.date, EffectiveTz(w.timezone)))
        nextIndex == (dowIndex + 1) % 7
    IN IF w.sunTimes.tzeis # NULL /\ w.date >= w.sunTimes.tzeis
       THEN <<nextIndex>>
       ELSE IF w.sunTimes.sunset # NULL /\ w.date >= w.sunTimes.sunset
       THEN <<dowIndex, nextIndex>>
       ELSE <<dowIndex>>

(* setDate after its call of updateHebrewDate: day of the week, omer,       *)
(* candle lighting, holidays                                                *)
setDateTexts(w, inIsr) ==
    [setCandleLighting([w EXCEPT !.displayDow = DowText(w), !.omer = getOmerCount(w)],
                       checkYomTov(w, inIsr))
        EXCEPT !.holiday = getHolidays(w, inIsr)]

setDate(w) ==
    setDateTexts(updateHebrewDate(w, w.sunTimes.tzeis), inIsrael(w.latitude, w.longitude))

-----------------------------------------------------------------------------
(* astronomy.js: addBiurChametzTime; ui.js: placeSunTimes *)

addBiurChametzTime(w) ==
    IF ~w.specialDayStatus.showBiurChametz
    THEN IF w.sunTimes.biurChametz # NULL
         THEN [w EXCEPT !.sunTimes.biurChametz = NULL,
                        !.sunTimesElements = @ \ {"biurChametz"}]
         ELSE w
    ELSE IF w.sunTimes.sunrise = NULL \/ w.sunTimes.sunset = NULL THEN w
    ELSE [w EXCEPT !.sunTimes.biurChametz =
                       w.sunTimes.sunrise
                           + MulDiv(w.sunTimes.sunset - w.sunTimes.sunrise, 5, 12)]

(* one element per entry of state.sunTimes, created when missing; the       *)
(* fourteen fixed entries are the one id "zmanim"                           *)
placeSunTimes(w) ==
    IF w.latitude = NULL \/ w.sunTimes.sunrise = NULL THEN w
    ELSE [w EXCEPT !.sunTimesElements =
                       @ \cup {"zmanim"}
                         \cup {n \in {"candleLighting", "biurChametz"} :
                                  w.sunTimes[n] # NULL}]

(* document.getElementById("sun-times").innerHTML = '' *)
clearSunTimes(w) == [w EXCEPT !.sunTimesElements = {}]

-----------------------------------------------------------------------------
(* Browser timers *)

ClearInterval(tm, id) == {t \in tm : t.id # id}

FreshId(tm) ==
    CHOOSE i \in 1..(Cardinality(tm) + 1) :
        /\ \A t \in tm : t.id # i
        /\ \A j \in 1..(i - 1) : \E t \in tm : t.id = j

SetInterval(tm, kind, period) ==
    tm \cup {[id |-> FreshId(tm), kind |-> kind, period |-> period]}

-----------------------------------------------------------------------------
(* main.js: showPolarLocationPopup and updateClock *)

showPolarLocationPopup(w) ==
    IF w.polarPopup THEN w
    ELSE LET w1 == IF w.clockIntervalId # NULL
                   THEN [w EXCEPT !.timers = ClearInterval(w.timers, w.clockIntervalId),
                                  !.clockIntervalId = NULL]
                   ELSE w
         IN [w1 EXCEPT !.polarPopup = TRUE]

(* a variant that leaves the day jump out *)
ActualTime_noDays(baseNow, navigationOffset, days) == baseNow + navigationOffset

(* the displayed instant of one update *)
ActualTime(baseNow, navigationOffset, days) ==
    baseNow + navigationOffset + days * 24 * 60 * 60 * 1000

(* the remainder of JavaScript's %: it has the sign of the dividend *)
JsRem(a, b) == IF a >= 0 THEN a % b ELSE -((-a) % b)

(* a variant that measures the night before sunrise from the coming sunset *)
calculateSeasonalTime_fromSunset(w) ==
    LET st == w.sunTimes
    IN IF w.date >= st.sunrise /\ w.date < st.sunset
       THEN [isDay |-> TRUE, timeFrom |-> w.date - st.sunrise,
             length |-> st.sunset - st.sunrise]
       ELSE [isDay |-> FALSE, timeFrom |-> w.date - st.sunset,
             length |-> st.nextSunrise - st.sunset]

(* calculateSeasonalTime: seasonalHours is 12 * timeFrom / length, kept as  *)
(* the exact fraction                                                       *)
calculateSeasonalTime(w) ==
    LET st == w.sunTimes
    IN IF w.date >= st.sunrise /\ w.date < st.sunset
       THEN [isDay |-> TRUE, timeFrom |-> w.date - st.sunrise,
             length |-> st.sunset - st.sunrise]
       ELSE IF w.date >= st.sunset
       THEN [isDay |-> FALSE, timeFrom |-> w.date - st.sunset,
             length |-> st.nextSunrise - st.sunset]
       ELSE LET nightLength == st.sunrise - st.prevSunset
            IN [isDay |-> FALSE,
                timeFrom |-> JsRem(w.date - st.prevSunset + nightLength, nightLength),
                length |-> nightLength]

(* Angles are thousandths of a degree *)
DEG == 1000

(* (seasonalHours / 12) * 180, on a grid of 10 seconds *)
HalfTurnShare(timeFrom, length) ==
    ((timeFrom \div (10 * MS_SECOND)) * (180 * DEG)) \div (length \div (10 * MS_SECOND))

(* a variant that adds the raw difference of the two angles *)
HandDelta_noWrap(totalDegrees, prev) == totalDegrees - prev

(* a variant that brings a difference beyond 180 back by half a turn *)
HandDelta_halfWrap(totalDegrees, prev) ==
    LET deltaDegrees == totalDegrees - prev
    IN IF deltaDegrees > 180 * DEG THEN deltaDegrees - 180 * DEG
       ELSE IF deltaDegrees < -180 * DEG THEN deltaDegrees + 180 * DEG
       ELSE deltaDegrees

(* the step of the hand from the previous angle to the new one *)
HandDelta(totalDegrees, prev) ==
    LET deltaDegrees == totalDegrees - prev
    IN IF deltaDegrees > 180 * DEG THEN deltaDegrees - 360 * DEG
       ELSE IF deltaDegrees < -180 * DEG THEN deltaDegrees + 360 * DEG
       ELSE deltaDegrees

(* the second half of setClockHand: accumulate the rotation *)
rotateHand(w, totalDegrees) ==
    [w EXCEPT !.accumulatedRotation =
                  IF w.prevTotalDegrees # NULL
                  THEN w.accumulatedRotation + HandDelta(totalDegrees, w.prevTotalDegrees)
                  ELSE totalDegrees,
              !.prevTotalDegrees = totalDegrees]

(* a variant that takes the night before sunrise for the start of a night *)
HandAngle_nightFromZero(s) ==
    IF s.isDay THEN HalfTurnShare(s.timeFrom, s.length) ELSE 180 * DEG

(* the angle of the seasonal time before the adjustment for the face *)
HandAngle(s) ==
    IF s.isDay THEN HalfTurnShare(s.timeFrom, s.length)
    ELSE 180 * DEG + HalfTurnShare(s.timeFrom, s.length)

setClockHand(w) ==
    LET totalDegrees == (360 * DEG - HandAngle(calculateSeasonalTime(w)) + 180 * DEG)
                            % (360 * DEG)
    IN rotateHand(w, totalDegrees)

(* the slow updates of updateClock after setDate *)
slowUpdates(w, baseNow) ==
    [placeSunTimes(addBiurChametzTime(
         [w EXCEPT !.specialDayStatus =
                       getSpecialDayStatus(w, inIsrael(w.latitude, w.longitude))]))
        EXCEPT !.lastSlowUpdate = baseNow]

(* updateClock after the fast updates *)
throttledUpdates(w, baseNow) ==
    IF baseNow - w.lastSlowUpdate > 100 THEN slowUpdates(setDate(w), baseNow) ELSE w

(* updateClock after calcSunTimes, r being its outcome *)
afterCalcSunTimes(r, baseNow) ==
    IF r.polar
    THEN showPolarLocationPopup([r.w EXCEPT !.polarLocationActive = TRUE])
    ELSE throttledUpdates(setClockHand(r.w), baseNow)

updateClock(w, baseNow) ==
    IF w.latitude = NULL \/ w.longitude = NULL THEN w
    ELSE IF w.polarLocationActive THEN w
    ELSE afterCalcSunTimes(
             calcSunTimes([w EXCEPT !.date = ActualTime(baseNow, w.offset, w.daysAhead)],
                          w.latitude, w.longitude),
             baseNow)

-----------------------------------------------------------------------------
(* main.js: day navigation, speed navigation, calendar selection *)

(* variants of changeDay: a reset that leaves the fine timer running, a     *)
(* reset that leaves the offset, a day jump that also rewinds the offset    *)
changeDay_keepTimer(w, direction) ==
    IF direction = 0
    THEN [w EXCEPT !.daysAhead = 0, !.offset = 0, !.speedMultiplier = 0]
    ELSE [w EXCEPT !.daysAhead = w.daysAhead + direction]

changeDay_keepOffset(w, direction) ==
    IF direction = 0
    THEN LET w1 == [w EXCEPT !.daysAhead = 0, !.speedMultiplier = 0]
         IN IF w1.intervalId # NULL
            THEN [w1 EXCEPT !.timers = ClearInterval(w1.timers, w1.intervalId),
                            !.intervalId = NULL]
            ELSE w1
    ELSE [w EXCEPT !.daysAhead = w.daysAhead + direction]

changeDay_rewind(w, direction) ==
    IF direction = 0
    THEN LET w1 == [w EXCEPT !.daysAhead = 0, !.offset = 0, !.speedMultiplier = 0]
         IN IF w1.intervalId # NULL
            THEN [w1 EXCEPT !.timers = ClearInterval(w1.timers, w1.intervalId),
                            !.intervalId = NULL]
            ELSE w1
    ELSE [w EXCEPT !.daysAhead = w.daysAhead + direction, !.offset = 0]

changeDay(w, direction) ==
    IF direction = 0
    THEN LET w1 == [w EXCEPT !.daysAhead = 0, !.offset = 0, !.speedMultiplier = 0]
         IN IF w1.intervalId # NULL
            THEN [w1 EXCEPT !.timers = ClearInterval(w1.timers, w1.intervalId),
                            !.intervalId = NULL]
            ELSE w1
    ELSE [w EXCEPT !.daysAhead = w.daysAhead + direction]

speedLevels == <<-100, -10, 0, 10, 100>>

indexOf(seq, v) == CHOOSE i \in 1..Len(seq) : seq[i] = v

(* a variant that jumps from any level to the end of the list *)
SteppedSpeed_toEnd(speed, change) ==
    LET currentIndex == indexOf(speedLevels, speed)
    IN IF change = 1 /\ currentIndex < Len(speedLevels) THEN speedLevels[Len(speedLevels)]
       ELSE IF change = -1 /\ currentIndex > 1 THEN speedLevels[1]
       ELSE speed

(* the speed the step buttons move to *)
SteppedSpeed(speed, change) ==
    LET currentIndex == indexOf(speedLevels, speed)
    IN IF change = 1 /\ currentIndex < Len(speedLevels) THEN speedLevels[currentIndex + 1]
       ELSE IF change = -1 /\ currentIndex > 1 THEN speedLevels[currentIndex - 1]
       ELSE speed

(* a variant that starts the new timer without cancelling the old one *)
handleSpeedButtonClick_noClear(w, change, baseNow) ==
    IF change = 0
    THEN updateClock([w EXCEPT !.speedMultiplier = 0,
                               !.timers = ClearInterval(w.timers, w.intervalId),
                               !.intervalId = NULL,
                               !.offset = 0], baseNow)
    ELSE [w EXCEPT !.speedMultiplier = SteppedSpeed(w.speedMultiplier, change),
                   !.timers = SetInterval(w.timers, "fine", 10),
                   !.intervalId = FreshId(w.timers)]

handleSpeedButtonClick(w, change, baseNow) ==
    IF change = 0
    THEN updateClock([w EXCEPT !.speedMultiplier = 0,
                               !.timers = ClearInterval(w.timers, w.intervalId),
                               !.intervalId = NULL,
                               !.offset = 0], baseNow)
    ELSE LET tm == ClearInterval(w.timers, w.intervalId)
         IN [w EXCEPT !.speedMultiplier = SteppedSpeed(w.speedMultiplier, change),
                      !.timers = SetInterval(tm, "fine", 10),
                      !.intervalId = FreshId(tm)]

(* a variant that adds the timer's period times the speed *)
FineTickDelta_period(speed) == 10 * speed

(* what one firing of the fine timer adds to state.offset *)
FineTickDelta(speed) == 1000 * speed

fineTimerCallback(w) == [w EXCEPT !.offset = w.offset + FineTickDelta(w.speedMultiplier)]

(* Math.round(a / d) for an even d, without leaving 32 bits *)
Round(a, d) == (a + d \div 2) \div d

(* the calendarDateSelected listener *)
calendarDateSelected(w, gDate, baseNow) ==
    LET today == MidnightOf(CivilDay(baseNow, LocalTz), LocalTz)
        diffDays == Round(gDate - today, MS_DAY)
        w1 == IF w.intervalId # NULL
              THEN [w EXCEPT !.timers = ClearInterval(w.timers, w.intervalId),
                             !.intervalId = NULL]
              ELSE w
    IN updateClock(clearSunTimes([w1 EXCEPT !.speedMultiplier = 0, !.offset = 0,
                                            !.daysAhead = diffDays]), baseNow)

-----------------------------------------------------------------------------
(* calendar.js: the date picker in Hebrew mode *)

(* isCurrentlyPastTzeis: the tzeis searched from today's local midnight *)
isCurrentlyPastTzeis(w, baseNow) ==
    IF w.observer = <<>> \/ w.latitude = NULL THEN FALSE
    ELSE LET today == MidnightOf(CivilDay(baseNow, LocalTz), LocalTz)
             tzeisResult == Search(w.observer[1], "set85", today)
         IN IF tzeisResult = NULL THEN FALSE ELSE baseNow >= tzeisResult

(* the gDate of a Hebrew date: a day earlier once the real time is past     *)
(* tzeis                                                                    *)
PickedGDate(w, h, baseNow) ==
    IF isCurrentlyPastTzeis(w, baseNow)
    THEN toGregorianDate(h) - MS_DAY
    ELSE toGregorianDate(h)

(* handleModeChange(mode) *)
handleModeChange(w, mode, baseNow) ==
    [w EXCEPT !.currentMode = mode,
              !.currentGregorianDate = baseNow,
              !.currentHebrewDate =
                  toJewishDate(IF isCurrentlyPastTzeis(w, baseNow)
                               THEN baseNow + MS_DAY ELSE baseNow)]

(* a variant that changes the year between Adar and Nisan *)
execPrevMonth_yearAtNisan(w) ==
    LET h == w.currentHebrewDate
        year == IF h.month = 1 THEN h.year - 1 ELSE h.year
        month == IF h.month = 1 THEN (IF isHebrewLeapYear(year) THEN 13 ELSE 12)
                 ELSE IF h.month = 13 THEN 12
                 ELSE IF h.month = 7 THEN 6
                 ELSE h.month - 1
        maxDay == getDaysInHebrewMonth(year, month)
    IN [w EXCEPT !.currentHebrewDate =
                     [year |-> year, month |-> month,
                      day |-> IF h.day < maxDay THEN h.day ELSE maxDay]]

(* execPrevMonth, Hebrew mode *)
execPrevMonth(w) ==
    LET h == w.currentHebrewDate
        year == IF h.month = 7 THEN h.year - 1 ELSE h.year
        month == IF h.month = 7 THEN 6
                 ELSE IF h.month = 1 THEN (IF isHebrewLeapYear(year) THEN 13 ELSE 12)
                 ELSE IF h.month = 13 THEN 12
                 ELSE h.month - 1
        maxDay == getDaysInHebrewMonth(year, month)
    IN [w EXCEPT !.currentHebrewDate =
                     [year |-> year, month |-> month,
                      day |-> IF h.day < maxDay THEN h.day ELSE maxDay]]

(* execNextMonth, Hebrew mode *)
execNextMonth(w) ==
    LET h == w.currentHebrewDate
        leap == isHebrewLeapYear(h.year)
        year == IF h.month = 6 THEN h.year + 1 ELSE h.year
        month == IF h.month = 6 THEN 7
                 ELSE IF h.month = 12 /\ leap THEN 13
                 ELSE IF h.month = 12 \/ h.month = 13 THEN 1
                 ELSE h.month + 1
        maxDay == getDaysInHebrewMonth(year, month)
    IN [w EXCEPT !.currentHebrewDate =
                     [year |-> year, month |-> month,
                      day |-> IF h.day < maxDay THEN h.day ELSE maxDay]]

(* handleDayClick(day, year, month, isHebrew = true) on a cell of the month *)
(* in view: the state after the event's listener has run, and the event    *)
handleDayClick(w, day, baseNow) ==
    LET h == [w.currentHebrewDate EXCEPT !.day = day]
        gDate == PickedGDate(w, h, baseNow)
    IN [w |-> calendarDateSelected([w EXCEPT !.currentHebrewDate = h], gDate, baseNow),
        alert |-> "", selected |-> gDate]

(* a variant that stores the date of the inputs before it tests the month *)
handleGoButton_storeFirst(w, m, d, y, baseNow) ==
    LET h == [year |-> y, month |-> m, day |-> d]
        w1 == [w EXCEPT !.currentHebrewDate = h]
    IN IF m < 1 \/ m > 13
       THEN [w |-> w1, alert |-> "Month must be between 1 and 13.", selected |-> NULL]
       ELSE IF m = 13 /\ ~isHebrewLeapYear(y)
       THEN [w |-> w1, alert |-> "Month 13 (Adar II) only exists in leap years.",
             selected |-> NULL]
       ELSE LET gDate == PickedGDate(w, h, baseNow)
            IN [w |-> calendarDateSelected([w1 EXCEPT !.currentGregorianDate = gDate],
                                           gDate, baseNow),
                alert |-> "", selected |-> gDate]

(* handleGoButton in Hebrew mode, with numbers in the three inputs *)
handleGoButton(w, m, d, y, baseNow) ==
    IF m < 1 \/ m > 13
    THEN [w |-> w, alert |-> "Month must be between 1 and 13.", selected |-> NULL]
    ELSE IF m = 13 /\ ~isHebrewLeapYear(y)
    THEN [w |-> w, alert |-> "Month 13 (Adar II) only exists in leap years.",
          selected |-> NULL]
    ELSE LET h == [year |-> y, month |-> m, day |-> d]
             gDate == PickedGDate(w, h, baseNow)
         IN [w |-> calendarDateSelected([w EXCEPT !.currentHebrewDate = h,
                                                  !.currentGregorianDate = gDate],
                                        gDate, baseNow),
             alert |-> "", selected |-> gDate]

-----------------------------------------------------------------------------
(* main.js: getLocation's success callback and the locationChanged listener *)

geoSuccess(w, lat, lon, baseNow) ==
    LET w1 == updateClock([w EXCEPT !.latitude = lat, !.longitude = lon], baseNow)
    IN [w1 EXCEPT !.timers = SetInterval(w1.timers, "clock", 50),
                  !.clockIntervalId = FreshId(w1.timers)]

(* the pre-test of the listener: state.date kept (or set when null), the    *)
(* zone of the event, then calcSunTimes(lat, lon)                           *)
locationPretest(w, lat, lon, tz, baseNow) ==
    calcSunTimes([w EXCEPT !.date = IF w.date = NULL THEN baseNow ELSE w.date,
                           !.timezone = tz], lat, lon)

(* location.js: cleanLonData, its two loops; longitudes in whole degrees *)
RECURSIVE cleanLonData(_)
cleanLonData(lon) ==
    IF lon > 180 THEN cleanLonData(lon - 360)
    ELSE IF lon < -180 THEN cleanLonData(lon + 360)
    ELSE lon

(* updateMapCoords(lat, lon) *)
updateMapCoords(w, lat, lon) ==
    [w EXCEPT !.customLat = lat, !.customLon = cleanLonData(lon)]

(* initMap: the map is created once, at the current or the default place *)
initMap(w) ==
    IF w.map THEN w
    ELSE updateMapCoords([w EXCEPT !.map = TRUE],
                         IF w.latitude # NULL /\ w.latitude # 0 THEN w.latitude ELSE 32,
                         IF w.longitude # NULL /\ w.longitude # 0 THEN w.longitude ELSE 35)

(* the listener of locationReverted *)
locationReverted(w, lat, lon) ==
    LET w1 == [w EXCEPT !.customLat = NULL, !.customLon = NULL]
    IN IF w1.map /\ lat # NULL /\ lat # 0 /\ lon # NULL /\ lon # 0
       THEN updateMapCoords(w1, lat, lon)
       ELSE w1

locationChanged(w, lat, lon, tz, baseNow) ==
    LET prevLat == w.latitude
        prevLon == w.longitude
        prevTimezone == w.timezone
        r == locationPretest(w, lat, lon, tz, baseNow)
    IN IF r.polar
       THEN locationReverted([showPolarLocationPopup(r.w)
                                 EXCEPT !.latitude = prevLat, !.longitude = prevLon,
                                        !.timezone = prevTimezone],
                             prevLat, prevLon)
       ELSE LET w2 == [r.w EXCEPT !.polarLocationActive = FALSE,
                                  !.latitude = lat, !.longitude = lon]
                w3 == IF w2.clockIntervalId = NULL
                      THEN [w2 EXCEPT !.timers = SetInterval(w2.timers, "clock", 1000),
                                      !.clockIntervalId = FreshId(w2.timers)]
                      ELSE w2
            IN updateClock(w3, baseNow)

(* location.js: applyCustomLocation after the await of the zone lookup *)
(* steps 2 and 3: the state and the custom place are written, and the map   *)
(* display when there is a map                                              *)
applyCustomWrites(w, lat, lon, tz) ==
    IF w.map
    THEN updateMapCoords([w EXCEPT !.latitude = lat, !.longitude = lon, !.timezone = tz],
                         lat, lon)
    ELSE [w EXCEPT !.latitude = lat, !.longitude = lon, !.timezone = tz,
                   !.customLat = lat, !.customLon = lon]

applyCustomLocation(w, lat, lon, tz, baseNow) ==
    locationChanged(applyCustomWrites(w, lat, lon, tz), lat, lon, tz, baseNow)

(* getTimezoneForLocation: the zone of the API, or the estimate after three *)
(* failed tries                                                             *)
TimezoneAnswers(lat, lon) ==
    {ApiTimezone(lat, lon), estimateTimezoneFromLongitude(lon, lat)}

-----------------------------------------------------------------------------
(* The state as one record (the world the handlers work on), and back *)

cur ==
    [latitude |-> latitude, longitude |-> longitude, timezone |-> timezone,
     observer |-> observer, daysAhead |-> daysAhead, offset |-> offset,
     speedMultiplier |-> speedMultiplier, intervalId |-> intervalId,
     clockIntervalId |-> clockIntervalId, date |-> date, hdate |-> hdate,
     sunTimes |-> sunTimes, polarLocationActive |-> polarLocationActive,
     polarPopup |-> polarPopup, lastSlowUpdate |-> lastSlowUpdate,
     displayDow |-> displayDow,
     currentGregorianDate |-> currentGregorianDate,
     currentHebrewDate |-> currentHebrewDate,
     currentMode |-> currentMode,
     map |-> map,
     customLon |-> customLon,
     customLat |-> customLat,
     holiday |-> holiday,
     omer |-> omer,
     specialDayStatus |-> specialDayStatus,
     sunTimesElements |-> sunTimesElements, prevTotalDegrees |-> prevTotalDegrees,
     accumulatedRotation |-> accumulatedRotation,
     timers |-> timers]

Commit(w) ==
    /\ latitude' = w.latitude
    /\ longitude' = w.longitude
    /\ timezone' = w.timezone
    /\ observer' = w.observer
    /\ daysAhead' = w.daysAhead
    /\ offset' = w.offset
    /\ speedMultiplier' = w.speedMultiplier
    /\ intervalId' = w.intervalId
    /\ clockIntervalId' = w.clockIntervalId
    /\ date' = w.date
    /\ hdate' = w.hdate
    /\ sunTimes' = w.sunTimes
    /\ polarLocationActive' = w.polarLocationActive
    /\ polarPopup' = w.polarPopup
    /\ lastSlowUpdate' = w.lastSlowUpdate
    /\ displayDow' = w.displayDow
    /\ currentGregorianDate' = w.currentGregorianDate
    /\ currentHebrewDate' = w.currentHebrewDate
    /\ currentMode' = w.currentMode
    /\ map' = w.map
    /\ customLon' = w.customLon
    /\ customLat' = w.customLat
    /\ holiday' = w.holiday
    /\ omer' = w.omer
    /\ specialDayStatus' = w.specialDayStatus
    /\ sunTimesElements' = w.sunTimesElements
    /\ prevTotalDegrees' = w.prevTotalDegrees
    /\ accumulatedRotation' = w.accumulatedRotation
    /\ timers' = w.timers

worldVars == <<latitude, longitude, timezone, observer, daysAhead, offset, speedMultiplier,
               intervalId, clockIntervalId, date, hdate, sunTimes, polarLocationActive,
               polarPopup, lastSlowUpdate, displayDow, currentGregorianDate, currentHebrewDate, currentMode, map, customLon, customLat,
               holiday, omer, specialDayStatus, sunTimesElements,
               prevTotalDegrees, accumulatedRotation, timers>>

-----------------------------------------------------------------------------
(* Initial state: the page has loaded, init() has run, getLocation() waits  *)
(* for the position                                                         *)

StartInstant == StartDay * MS_DAY + EventPhase(32, "set85") - ElapseMs

NoQueries == [n \in QueryNames |-> NULL]

NoResult == [done |-> FALSE, polar |-> FALSE, sunTimes |-> NoSunTimes]

NoHistory ==
    [resetOccurred |-> FALSE, dirtyReset |-> FALSE, steppedSinceReset |-> FALSE,
     overlap |-> FALSE, lastLat |-> NULL, lastLon |-> NULL, writer |-> 0,
     pretestPolar |-> FALSE,
     alert |-> "",               \* the alert of the last Go button press, if any
     selected |-> NULL,          \* the gDate its calendarDateSelected event carried
     lastStep |-> "",            \* the last month step of the picker, and the
     stepFrom |-> [year |-> 0, month |-> 0]]     \* year and month it left

(* config.js and the module variables, but for the Hebrew date and the     *)
(* date picker                                                              *)
InitClock ==
    /\ latitude = NULL /\ longitude = NULL /\ timezone = "null" /\ observer = <<>>
    /\ daysAhead = 0 /\ offset = 0 /\ speedMultiplier = 0
    /\ intervalId = NULL /\ clockIntervalId = NULL
    /\ date = NULL /\ sunTimes = NoSunTimes
    /\ polarLocationActive = FALSE /\ polarPopup = FALSE
    /\ lastSlowUpdate = 0 /\ displayDow = <<>>
    /\ map = FALSE /\ customLon = NULL /\ customLat = NULL
    /\ holiday = {}
    /\ omer = 0
    /\ specialDayStatus = [isMinorFast |-> FALSE, showBiurChametz |-> FALSE]
    /\ sunTimesElements = {}
    /\ prevTotalDegrees = NULL
    /\ accumulatedRotation = 0
    /\ timers = {}

(* calendar.js after loadLibrary: Gregorian mode, both dates today *)
InitPickerDates ==
    /\ currentMode = "gregorian"
    /\ currentGregorianDate = MidnightOf(StartDay, LocalTz)
    /\ currentHebrewDate = toJewishDate(MidnightOf(StartDay, LocalTz))

InitWorld == InitClock /\ hdate = NULL /\ InitPickerDates

Init ==
    /\ InitWorld
    /\ now = StartInstant
    /\ geoPending = TRUE
    /\ pending = {} /\ issued = 0 /\ skew = 0
    /\ hist = NoHistory
    /\ zq = NoQueries /\ zres = NoResult

-----------------------------------------------------------------------------
(* Actions *)

(* real time passes *)
Elapse ==
    /\ now + ElapseMs <= StartInstant + MaxElapse * ElapseMs
    /\ now' = now + ElapseMs
    /\ UNCHANGED <<worldVars, geoPending, pending, issued, skew, hist, zq, zres>>

(* the position arrives: onSuccess of getLocation *)
GeoSuccess ==
    /\ geoPending
    /\ geoPending' = FALSE
    /\ Commit(geoSuccess(cur, Home.lat, Home.lon, now))
    /\ skew' = 0
    /\ hist' = [hist EXCEPT !.writer = 0, !.pretestPolar = FALSE]
    /\ UNCHANGED <<now, pending, issued, zq, zres>>

(* the position request fails: showError *)
GeoError ==
    /\ geoPending
    /\ geoPending' = FALSE
    /\ UNCHANGED <<worldVars, now, pending, issued, skew, hist, zq, zres>>

(* a render timer fires: setInterval(updateClock, ...) *)
RenderTick ==
    /\ \E t \in timers : t.kind = "clock"
    /\ Commit(updateClock(cur, now))
    /\ skew' = 0
    /\ UNCHANGED <<now, geoPending, pending, issued, hist, zq, zres>>

(* the window resize listener *)
Resize ==
    /\ latitude # NULL
    /\ Commit(updateClock(cur, now))
    /\ skew' = 0
    /\ UNCHANGED <<now, geoPending, pending, issued, hist, zq, zres>>

(* the fine timer fires; cap bounds |offset| in steps of 10 s *)
FineTick(cap) ==
    /\ \E t \in timers : t.kind = "fine"
    /\ skew < MaxSkew
    /\ LET w == fineTimerCallback(cur)
       IN /\ w.offset <= cap * 10 * MS_SECOND
          /\ w.offset >= -(cap * 10 * MS_SECOND)
          /\ Commit(w)
    /\ skew' = skew + 1
    /\ UNCHANGED <<now, geoPending, pending, issued, hist, zq, zres>>

(* history: a reset has run; all of offset, daysAhead and speedMultiplier    *)
(* were nonzero before it (dirty); no speed step has followed it yet        *)
ResetSeen(h, dirty) ==
    [h EXCEPT !.resetOccurred = TRUE, !.dirtyReset = dirty, !.steppedSinceReset = FALSE]

(* btn-prev-day / btn-next-day *)
DayButton(direction) ==
    /\ daysAhead + direction <= MaxDays
    /\ daysAhead + direction >= -MaxDays
    /\ Commit(updateClock(clearSunTimes(changeDay(cur, direction)), now))
    /\ skew' = 0
    /\ UNCHANGED <<now, geoPending, pending, issued, hist, zq, zres>>

(* btn-reset: changeDay(0), then updateClock() *)
ResetButton ==
    /\ Commit(updateClock(clearSunTimes(changeDay(cur, 0)), now))
    /\ skew' = 0
    /\ hist' = ResetSeen(hist, offset # 0 /\ daysAhead # 0 /\ speedMultiplier # 0)
    /\ UNCHANGED <<now, geoPending, pending, issued, zq, zres>>

(* the legacy #reset button: it carries the day listener and the speed listener *)
LegacyResetButton ==
    /\ Commit(handleSpeedButtonClick(
                 updateClock(clearSunTimes(changeDay(cur, 0)), now), 0, now))
    /\ skew' = 0
    /\ hist' = ResetSeen(hist, offset # 0 /\ daysAhead # 0 /\ speedMultiplier # 0)
    /\ UNCHANGED <<now, geoPending, pending, issued, zq, zres>>

(* btn-speed-back / btn-speed-fwd *)
SpeedButton(change) ==
    /\ Commit(handleSpeedButtonClick(cur, change, now))
    /\ hist' = [hist EXCEPT !.steppedSinceReset = hist.resetOccurred,
                            !.dirtyReset = FALSE]
    /\ UNCHANGED <<now, geoPending, pending, issued, skew, zq, zres>>

(* the picker dispatches calendarDateSelected with the midnight of a day *)
CalendarDateSelected(gDate) ==
    /\ Commit(calendarDateSelected(cur, gDate, now))
    /\ skew' = 0
    /\ UNCHANGED <<now, geoPending, pending, issued, hist, zq, zres>>

(* the user applies a place: applyCustomLocation starts and awaits the zone *)
ApplyStart(place) ==
    /\ issued < MaxRequests
    /\ issued' = issued + 1
    /\ pending' = pending \cup {[seq |-> issued + 1, lat |-> place.lat, lon |-> place.lon]}
    /\ hist' = [hist EXCEPT !.overlap = (hist.overlap \/ pending # {}),
                            !.lastLat = place.lat, !.lastLon = place.lon]
    /\ UNCHANGED <<worldVars, now, geoPending, skew, zq, zres>>

(* the zone lookup of one waiting call answers; the call runs to its end *)
ApplyComplete(r, tz) ==
    /\ r \in pending
    /\ pending' = pending \ {r}
    /\ Commit(applyCustomLocation(cur, r.lat, r.lon, tz, now))
    /\ skew' = 0
    /\ hist' = [hist EXCEPT !.writer = r.seq,
                            !.pretestPolar =
                                locationPretest([cur EXCEPT !.latitude = r.lat,
                                                            !.longitude = r.lon,
                                                            !.timezone = tz],
                                                r.lat, r.lon, tz, now).polar]
    /\ UNCHANGED <<now, geoPending, issued, zq, zres>>

(* OK or a click on the backdrop of the polar popup *)
ClosePopup ==
    /\ polarPopup
    /\ polarPopup' = FALSE
    /\ UNCHANGED <<latitude, longitude, timezone, observer, daysAhead, offset,
                   speedMultiplier, intervalId, clockIntervalId, date, hdate, sunTimes,
                   polarLocationActive, lastSlowUpdate, displayDow, currentGregorianDate, currentHebrewDate, currentMode, map, customLon, customLat,
                   holiday, omer, specialDayStatus, sunTimesElements,
                   prevTotalDegrees, accumulatedRotation, timers,
                   now, geoPending, pending, issued, skew, hist, zq, zres>>

PickerDays == {CivilDay(now, LocalTz) + k : k \in -MaxDays..MaxDays}

-----------------------------------------------------------------------------
(* The virtual clock at the place the browser reports *)

Next ==
    \/ GeoSuccess
    \/ RenderTick
    \/ FineTick(MaxOffsetSteps)
    \/ \E direction \in {-1, 1} : DayButton(direction)
    \/ ResetButton
    \/ LegacyResetButton
    \/ \E change \in {-1, 1} : SpeedButton(change)
    \/ \E d \in PickerDays : CalendarDateSelected(MidnightOf(d, LocalTz))

Spec == Init /\ [][Next]_vars

(* The date display as real and virtual time pass the evening *)

NextDate ==
    \/ Elapse
    \/ GeoSuccess
    \/ RenderTick
    \/ FineTick(LocMaxOffsetSteps)
    \/ \E direction \in {-1, 1} : DayButton(direction)
    \/ \E change \in {-1, 1} : SpeedButton(change)
    \/ \E d \in PickerDays : CalendarDateSelected(MidnightOf(d, LocalTz))

SpecDate == Init /\ [][NextDate]_vars

(* Changes of place, with the clock controls *)

NextLocation ==
    \/ Elapse
    \/ GeoSuccess
    \/ GeoError
    \/ RenderTick
    \/ Resize
    \/ \E direction \in {-1, 1} : DayButton(direction)
    \/ \E place \in Places : ApplyStart(place)
    \/ \E r \in pending : \E tz \in TimezoneAnswers(r.lat, r.lon) : ApplyComplete(r, tz)
    \/ ClosePopup

SpecLocation == Init /\ [][NextLocation]_vars

(* A day-long run: the render timer fires as real time passes from the      *)
(* start of a civil day, through it and into the next                       *)

DaySteps == {10 * MS_MINUTE, 20 * MS_MINUTE}

DayRunStart == MidnightOf(StartDay, LocalTz)

InitDay ==
    /\ InitWorld
    /\ now = DayRunStart
    /\ geoPending = TRUE
    /\ pending = {} /\ issued = 0 /\ skew = 0
    /\ hist = NoHistory
    /\ zq = NoQueries /\ zres = NoResult

(* the render timer fires once ms of real time have passed *)
RenderAfter(ms) ==
    /\ \E t \in timers : t.kind = "clock"
    /\ now + ms <= DayRunStart + MaxDayHours * MS_HOUR
    /\ now' = now + ms
    /\ Commit(updateClock(cur, now + ms))
    /\ skew' = 0
    /\ UNCHANGED <<geoPending, pending, issued, hist, zq, zres>>

NextDay ==
    \/ GeoSuccess
    \/ \E ms \in DaySteps : RenderAfter(ms)

SpecDay == InitDay /\ [][NextDay]_vars

(* The hand alone: setClockHand's accumulation applied to angles of the    *)
(* face, from a hand that has not been placed yet                           *)

HandAngles == {k * 45 * DEG : k \in 0..7} \cup {1 * DEG, 179 * DEG, 181 * DEG, 359 * DEG}

InitHand == InitDay

SetHandTo(totalDegrees) ==
    /\ LET w == rotateHand(cur, totalDegrees)
       IN /\ w.accumulatedRotation <= MaxTurns * 360 * DEG
          /\ w.accumulatedRotation >= -MaxTurns * 360 * DEG
          /\ Commit(w)
    /\ UNCHANGED <<now, geoPending, pending, issued, skew, hist, zq, zres>>

NextHand == \E totalDegrees \in HandAngles : SetHandTo(totalDegrees)

SpecHand == InitHand /\ [][NextHand]_vars

(* The zmanim engine alone: calcSunTimes on every combination of answered   *)
(* and unanswered searches, at each place whose searches can all answer     *)

ZmanimInputs ==
    {[n \in QueryNames |-> IF n \in missing THEN NULL ELSE q[n]] :
        missing \in SUBSET QueryNames,
        q \in {OracleQueries(pl.lat, pl.lon, ApiTimezone(pl.lat, pl.lon), StartInstant) :
                  pl \in {Home, Oslo, Tromso}}}

InitZmanim ==
    /\ InitWorld
    /\ now = StartInstant
    /\ geoPending = TRUE
    /\ pending = {} /\ issued = 0 /\ skew = 0
    /\ hist = NoHistory
    /\ zq \in ZmanimInputs /\ zres = NoResult

(* calcSunTimes runs on the answers zq *)
ComputeZmanim ==
    /\ ~zres.done
    /\ LET z == ZmanimFrom(zq, now)
       IN zres' = [done |-> TRUE, polar |-> z.polar, sunTimes |-> z.sunTimes]
    /\ UNCHANGED <<worldVars, now, geoPending, pending, issued, skew, hist, zq>>

NextZmanim == ComputeZmanim

SpecZmanim == InitZmanim /\ [][NextZmanim]_vars

-----------------------------------------------------------------------------
(* Properties *)

(* the tzeis of the oracle for the civil day of an instant at the place and *)
(* zone of the state                                                        *)
TzeisOfCivilDay(instant, lat, tz) ==
    Search(lat, "set85", MidnightOf(CivilDay(instant, tz), tz))

(* C1: whenever the date display is refreshed (a slow update of updateClock *)
(* runs setDate), tzeis is the oracle's tzeis of the displayed instant's    *)
(* civil day in the zone, and the Hebrew date is that civil day's Hebrew    *)
(* date when the instant is before tzeis and its successor when the instant *)
(* is at or after tzeis.                                                    *)
C1_HebrewDateRollsAtTzeis ==
    [][lastSlowUpdate' # lastSlowUpdate =>
         LET tz == EffectiveTz(timezone')
             candidate == HDate(CivilDay(date', tz))
             tzeis == TzeisOfCivilDay(date', latitude', tz)
         IN /\ sunTimes'.tzeis = tzeis
            /\ date' < tzeis => hdate' = candidate
            /\ date' >= tzeis => hdate' = candidate + 1]_vars

(* C1 happens: a refresh at the very instant of tzeis shows the successor *)
C1_Witness ==
    /\ lastSlowUpdate = now /\ skew = 0
    /\ date = sunTimes.tzeis
    /\ hdate = HDate(CivilDay(date, EffectiveTz(timezone))) + 1

(* a fine timer is registered with the browser *)
FineTimerActive == \E t \in timers : t.kind = "fine"

(* a step of the reset button (btn-reset, or the legacy #reset) *)
ResetStep == ResetButton \/ LegacyResetButton

(* C2: from any reachable state a reset leaves offset = 0, daysAhead = 0    *)
(* and speedMultiplier = 0 with the fine timer cancelled, and the displayed *)
(* instant equal to the real time of that moment (once a place is known).   *)
C2_ResetReturnsToNow ==
    [][ResetStep =>
         /\ offset' = 0 /\ daysAhead' = 0 /\ speedMultiplier' = 0
         /\ intervalId' = NULL
         /\ ~(\E t \in timers' : t.kind = "fine")
         /\ latitude' # NULL => date' = now']_vars

(* C2 happens: a reset has just run from a state where the offset, the day  *)
(* jump and the speed were all nonzero                                      *)
C2_Witness ==
    /\ hist.dirtyReset
    /\ offset = 0 /\ daysAhead = 0 /\ speedMultiplier = 0
    /\ intervalId = NULL /\ ~FineTimerActive
    /\ date = now

(* the level next to a level of the ordered list -100, -10, 0, 10, 100 *)
AdjacentLevel(speed, change) ==
    IF change = 1
    THEN (CASE speed = -100 -> -10 [] speed = -10 -> 0 [] speed = 0 -> 10
            [] speed = 10 -> 100 [] speed = 100 -> 100)
    ELSE (CASE speed = -100 -> -100 [] speed = -10 -> -100 [] speed = 0 -> -10
            [] speed = 10 -> 0 [] speed = 100 -> 10)

(* C3: speedMultiplier is always one of -100, -10, 0, 10, 100; a speed-up   *)
(* or speed-down moves it to the adjacent level and leaves it unchanged at  *)
(* the end of the list; every other event leaves it or sets it to 0.        *)
C3_SpeedLevels ==
    /\ [](speedMultiplier \in {-100, -10, 0, 10, 100})
    /\ [][/\ \A change \in {-1, 1} :
                 SpeedButton(change) =>
                     speedMultiplier' = AdjacentLevel(speedMultiplier, change)
          /\ (~\E change \in {-1, 1} : SpeedButton(change)) =>
                 speedMultiplier' \in {speedMultiplier, 0}]_vars

(* C3 happens: the clock has run backwards at the lowest level *)
C3_Witness ==
    /\ speedMultiplier = -100 /\ FineTimerActive
    /\ offset = -100000 /\ skew = 1 /\ date = now

(* C4 as stated: speedMultiplier = 0 and a reset has occurred imply         *)
(* offset = 0.                                                              *)
C4_Original ==
    (speedMultiplier = 0 /\ hist.resetOccurred) => offset = 0

(* C4, amended: speedMultiplier = 0 and a reset has occurred with no speed  *)
(* step since that reset imply offset = 0.                                  *)
C4_ZeroOffsetAfterReset ==
    (speedMultiplier = 0 /\ hist.resetOccurred /\ ~hist.steppedSinceReset) => offset = 0

(* C4 happens: after a reset from a running clock and a day jump, with no   *)
(* speed step since                                                         *)
C4_Witness ==
    /\ hist.resetOccurred /\ hist.dirtyReset /\ ~hist.steppedSinceReset
    /\ speedMultiplier = 0 /\ offset = 0 /\ daysAhead # 0

(* C8 as stated: at nonzero speed a firing of the fine timer adds the       *)
(* period the timer was scheduled with times speedMultiplier.               *)
C8_Original ==
    [][(FineTick(MaxOffsetSteps) /\ speedMultiplier # 0) =>
         \E t \in timers : /\ t.id = intervalId
                            /\ offset' = offset + t.period * speedMultiplier]_vars

(* C8, amended: every firing of the fine timer (scheduled with a period of  *)
(* 10 ms) adds exactly 1000 ms times speedMultiplier to offset, at speed 0  *)
(* as well.                                                                 *)
C8_TickAddsSecondTimesSpeed ==
    [][FineTick(MaxOffsetSteps) =>
         /\ \E t \in timers : t.id = intervalId /\ t.kind = "fine" /\ t.period = 10
         /\ offset' = offset + 1000 * speedMultiplier]_vars

(* C8 happens: one firing at speed 100 right after an update at offset 0 *)
C8_Witness ==
    /\ speedMultiplier = 100 /\ skew = 1
    /\ date = now + daysAhead * 86400000
    /\ offset = 100000

(* C9: every render tick of updateClock computes with the instant           *)
(* now + offset + daysAhead * 86400000: state.date is that instant and the  *)
(* zmanim are the oracle's for its civil day.                               *)
C9_DisplayedInstant ==
    [][RenderTick =>
         LET tz == EffectiveTz(timezone')
         IN /\ date' = now + offset + daysAhead * 86400000
            /\ sunTimes'.sunset =
                   Search(latitude', "set", MidnightOf(CivilDay(date', tz), tz))]_vars

(* C9 happens: an update with a day jump and a speed offset both applied,   *)
(* after real time has passed                                               *)
C9_Witness ==
    /\ skew = 0 /\ now > StartInstant
    /\ offset # 0 /\ daysAhead # 0
    /\ date = now + offset + daysAhead * 86400000

(* C10: a firing of the fine timer changes only offset; a day button        *)
(* changes daysAhead by its direction and leaves offset, speedMultiplier    *)
(* and the fine timer; a speed step leaves daysAhead; a render tick leaves  *)
(* offset, daysAhead and speedMultiplier.                                   *)
C10_FrameEffects ==
    [][/\ FineTick(MaxOffsetSteps) =>
             UNCHANGED <<latitude, longitude, timezone, observer, daysAhead,
                         speedMultiplier, intervalId, clockIntervalId, date, hdate,
                         sunTimes, polarLocationActive, polarPopup, lastSlowUpdate,
                         displayDow, currentGregorianDate, currentHebrewDate, currentMode, map, customLon, customLat,
                         holiday, omer, specialDayStatus, sunTimesElements,
                         prevTotalDegrees, accumulatedRotation, timers>>
       /\ \A direction \in {-1, 1} :
             DayButton(direction) =>
                 /\ daysAhead' = daysAhead + direction
                 /\ UNCHANGED <<offset, speedMultiplier, intervalId, timers>>
       /\ \A change \in {-1, 1} : SpeedButton(change) => UNCHANGED daysAhead
       /\ RenderTick => UNCHANGED <<offset, daysAhead, speedMultiplier>>]_vars

(* C10 happens: ticks, a day jump and a speed step have all acted and an    *)
(* update has shown the result                                              *)
C10_Witness ==
    /\ offset # 0 /\ daysAhead # 0 /\ speedMultiplier # 0 /\ skew = 0
    /\ date = now + offset + daysAhead * 86400000

(* the searches whose missing answer makes calcSunTimes throw *)
RequiredQueries == {"sunrise", "sunset", "nextSunrise", "prevSunset", "dawn", "rTamDegrees"}

PolarRaised == polarLocationActive \/ hist.pretestPolar

(* C6 as stated: once the polar error has been raised for the current       *)
(* location, no step other than the completion of a location change (or    *)
(* the arrival of the browser's position) computes zmanim or updates the    *)
(* display.                                                                 *)
C6_Original ==
    [][(PolarRaised /\ pending' = pending /\ geoPending' = geoPending) =>
         UNCHANGED <<sunTimes, hdate, displayDow>>]_vars

(* C7 as stated: when location changes have overlapped and all have         *)
(* completed, latitude, longitude and timezone are those of the request     *)
(* issued last.                                                             *)
C7_Original ==
    (pending = {} /\ hist.overlap /\ hist.writer # 0) =>
        /\ latitude = hist.lastLat /\ longitude = hist.lastLon
        /\ timezone \in TimezoneAnswers(hist.lastLat, hist.lastLon)

(* C11: between two consecutive render ticks of a day-long run the Hebrew   *)
(* date stays or moves to its successor; it moves exactly when the instant  *)
(* passes the tzeis of its civil day, and it stays when the instant passes  *)
(* civil midnight.                                                          *)
C11_OneRollPerDayAtTzeis ==
    [][((\E ms \in DaySteps : RenderAfter(ms)) /\ hdate # NULL) =>
         LET tz == EffectiveTz(timezone)
             crossesTzeis == /\ CivilDay(date', tz) = CivilDay(date, tz)
                             /\ date < sunTimes.tzeis
                             /\ date' >= sunTimes.tzeis
         IN /\ hdate' \in {hdate, hdate + 1}
            /\ hdate' = hdate + 1 <=> crossesTzeis
            /\ CivilDay(date', tz) # CivilDay(date, tz) => hdate' = hdate]_vars

(* C11 happens: the run has passed tzeis and then civil midnight, and the   *)
(* date shown in the new civil day is the one tzeis had rolled to           *)
C11_Witness ==
    /\ CivilDay(date, EffectiveTz(timezone)) = StartDay + 1
    /\ date < sunTimes.tzeis
    /\ hdate = HDate(StartDay) + 1

(* C13 as stated: when a previous angle exists, the amount added to the     *)
(* accumulated rotation is congruent to the difference of the two angles    *)
(* modulo 360 and lies in (-180, 180].                                      *)
C13_Original ==
    [][((\E a \in HandAngles : SetHandTo(a)) /\ prevTotalDegrees # NULL) =>
         LET d == accumulatedRotation' - accumulatedRotation
         IN /\ (d - (prevTotalDegrees' - prevTotalDegrees)) % (360 * DEG) = 0
            /\ d > -180 * DEG
            /\ d <= 180 * DEG]_vars

(* C13: when a previous angle exists, the amount added to the accumulated   *)
(* rotation is congruent to the difference of the two angles modulo 360     *)
(* and lies in [-180, 180]; a difference of exactly -180 is added as -180.  *)
C13_DeltaNormalized ==
    [][((\E a \in HandAngles : SetHandTo(a)) /\ prevTotalDegrees # NULL) =>
         LET d == accumulatedRotation' - accumulatedRotation
         IN /\ (d - (prevTotalDegrees' - prevTotalDegrees)) % (360 * DEG) = 0
            /\ d >= -180 * DEG
            /\ d <= 180 * DEG
            /\ prevTotalDegrees' - prevTotalDegrees = -180 * DEG => d = -180 * DEG]_vars

(* C13 happens: the hand has crossed the 0/360 boundary, so a difference    *)
(* beyond 180 has been brought back and the hand is past a full turn        *)
C13_Witness ==
    /\ prevTotalDegrees # NULL
    /\ accumulatedRotation > 360 * DEG

(* C14: between two consecutive render ticks of a day-long run at normal    *)
(* speed the accumulated rotation changes by less than 180 degrees and      *)
(* never against the hand's direction of travel (the rotation decreases as  *)
(* time advances), across sunrise, sunset and civil midnight included.      *)
C14_HandNeverJumpsBack ==
    [][((\E ms \in DaySteps : RenderAfter(ms)) /\ prevTotalDegrees # NULL
           /\ speedMultiplier = 0) =>
         LET d == accumulatedRotation' - accumulatedRotation
         IN /\ d > -180 * DEG
            /\ d < 180 * DEG
            /\ d <= 0]_vars

(* C14 happens: the run has passed sunset, civil midnight and the next      *)
(* sunrise, and the hand has gone more than half a turn past its zero       *)
C14_Witness ==
    /\ CivilDay(date, EffectiveTz(timezone)) = StartDay + 1
    /\ date >= sunTimes.sunrise
    /\ prevTotalDegrees # NULL
    /\ accumulatedRotation < -180 * DEG

(* state.sunTimes is the zmanim set of the civil day of the displayed       *)
(* instant, and the four events that bound the seasonal hours are in their  *)
(* order                                                                    *)
EventsOrdered ==
    /\ sunTimes # NoSunTimes
    /\ latitude # NULL /\ date # NULL
    /\ LET r == calcSunTimes(cur, latitude, longitude)
       IN /\ ~r.polar
          /\ \A e \in {"prevSunset", "sunrise", "sunset", "nextSunrise"} :
                 r.w.sunTimes[e] = sunTimes[e]
    /\ sunTimes.prevSunset < sunTimes.sunrise
    /\ sunTimes.sunrise < sunTimes.sunset
    /\ sunTimes.sunset < sunTimes.nextSunrise

(* C15: for the displayed instant inside the civil day of a zmanim set      *)
(* whose events are ordered, seasonalHours (12 * timeFrom / length) is in   *)
(* [0, 12), and isDay holds exactly when sunrise <= instant < sunset.       *)
C15_SeasonalHoursInRange ==
    EventsOrdered =>
        LET s == calculateSeasonalTime(cur)
        IN /\ s.length > 0
           /\ 0 <= s.timeFrom
           /\ s.timeFrom < s.length
           /\ s.isDay <=> (sunTimes.sunrise <= date /\ date < sunTimes.sunset)

(* C15 happens: the displayed instant is in the night before sunrise, where *)
(* the hours are counted from the previous day's sunset                     *)
C15_Witness ==
    /\ EventsOrdered
    /\ date < sunTimes.sunrise
    /\ date > sunTimes.prevSunset
    /\ calculateSeasonalTime(cur).timeFrom = date - sunTimes.prevSunset

(* C16 as stated: every zmanim set that calcSunTimes returns has            *)
(* sunrise < chatzos < minchaGedola < sunset and sunset < tzeis.            *)
C16_Original ==
    (zres.done /\ ~zres.polar) =>
        /\ zres.sunTimes.sunrise < zres.sunTimes.chatzos
        /\ zres.sunTimes.chatzos < zres.sunTimes.minchaGedola
        /\ zres.sunTimes.minchaGedola < zres.sunTimes.sunset
        /\ zres.sunTimes.sunset < zres.sunTimes.tzeis

(* C17: in every zmanim set that calcSunTimes returns, minchaGedola is at   *)
(* least 30 minutes after chatzos: half a day-hour ((sunset - sunrise) /    *)
(* 24) after it when that is 30 minutes or more, and 30 minutes otherwise.  *)
C17_MinchaGedolaFloor ==
    (zres.done /\ ~zres.polar) =>
        LET gap == zres.sunTimes.minchaGedola - zres.sunTimes.chatzos
            halfDayHour == (zres.sunTimes.sunset - zres.sunTimes.sunrise) \div 24
        IN /\ gap >= 30 * MS_MINUTE
           /\ halfDayHour >= 30 * MS_MINUTE => gap = halfDayHour
           /\ halfDayHour < 30 * MS_MINUTE => gap = 30 * MS_MINUTE

(* C17 happens: a zmanim set of a day whose day-hour is shorter than 30     *)
(* minutes has been returned, with minchaGedola 30 minutes after chatzos    *)
C17_Witness ==
    /\ zres.done /\ ~zres.polar
    /\ zres.sunTimes.sunset - zres.sunTimes.sunrise < 6 * MS_HOUR
    /\ zres.sunTimes.minchaGedola = zres.sunTimes.chatzos + 30 * MS_MINUTE

(* C12: at every update of the Hebrew-calendar display the day of the week  *)
(* shown is the next civil day's exactly when the Hebrew date is the        *)
(* successor of the civil day's date, which is exactly when the displayed   *)
(* instant has reached the tzeis of state.sunTimes; and the holidays, the   *)
(* omer count, the special-day status and the candle-lighting entry are     *)
(* those of that Hebrew date.                                               *)
C12_OneHebrewDatePerUpdate ==
    [][lastSlowUpdate' # lastSlowUpdate =>
         LET tz == EffectiveTz(timezone')
             civil == CivilDay(date', tz)
             inIsr == inIsrael(latitude', longitude')
             successor == hdate' = HDate(civil) + 1
             resolved == [hdate |-> hdate']
         IN /\ hdate' \in {HDate(civil), HDate(civil) + 1}
            /\ successor <=> date' >= sunTimes'.tzeis
            /\ successor <=> displayDow' = <<(DayOfWeek(civil) + 1) % 7>>
            /\ holiday' = {e.name : e \in EventsAt(hdate', inIsr)}
            /\ omer' = getOmerCount(resolved)
            /\ specialDayStatus' = getSpecialDayStatus(resolved, inIsr)
            /\ sunTimes'.candleLighting # NULL =>
                  /\ HDateGreg(hdate') = civil
                  /\ \/ \E i \in DOMAIN displayDow' : displayDow'[i] = FRIDAY
                     \/ checkYomTov(resolved, inIsr)
            /\ sunTimes'.biurChametz # NULL <=> specialDayStatus'.showBiurChametz]_vars

(* C12 happens: an update after tzeis of Friday 13 Nisan shows the Sabbath, *)
(* 14 Nisan and its holidays                                                *)
C12_Witness ==
    /\ hdate # NULL
    /\ date >= sunTimes.tzeis
    /\ hdate = HDate(CivilDay(date, EffectiveTz(timezone))) + 1
    /\ displayDow = <<6>>
    /\ "Erev Pesach" \in holiday
    /\ specialDayStatus.showBiurChametz

(* C18 as stated: a candle-lighting entry is in state.sunTimes only when    *)
(* the civil day of the displayed instant is a Friday or a holiday (chag)   *)
(* begins at the coming nightfall, and the Hebrew date shown is that civil  *)
(* day's own date.                                                          *)
C18_Original ==
    sunTimes.candleLighting # NULL =>
        LET civil == CivilDay(date, EffectiveTz(timezone))
        IN /\ hdate = HDate(civil)
           /\ \/ DayOfWeek(civil) = FRIDAY
              \/ \E e \in EventsAt(HDate(civil) + 1, inIsrael(latitude, longitude)) :
                    "CHAG" \in e.flags

(* the condition setDate evaluates for the candle-lighting entry *)
CandleCondition ==
    /\ hdate # NULL
    /\ \/ \E i \in DOMAIN displayDow : displayDow[i] = FRIDAY
       \/ checkYomTov(cur, inIsrael(latitude, longitude))
    /\ HDateGreg(hdate) = CivilDay(date, EffectiveTz(timezone))

(* C19 as stated: after a display update at which the candle-lighting       *)
(* condition is false, no candle-lighting entry is in state.sunTimes or in  *)
(* the displayed list of zmanim.                                            *)
C19_Original ==
    [][(lastSlowUpdate' # lastSlowUpdate /\ ~CandleCondition') =>
         /\ sunTimes'.candleLighting = NULL
         /\ "candleLighting" \notin sunTimesElements']_vars

(* the Hebrew date shown is 14 Nisan, or 13 Nisan with 14 Nisan a Sabbath *)
BiurChametzDay ==
    /\ hdate # NULL
    /\ getMonth(hdate) = 1
    /\ \/ getDate(hdate) = 14
       \/ getDate(hdate) = 13 /\ DayOfWeek(HDateGreg(hdate + 1)) = 6

(* C20 as stated: after each display update the biur chametz entry is in    *)
(* state.sunTimes and in the displayed list of zmanim exactly when the      *)
(* Hebrew date shown is 14 Nisan, or 13 Nisan with 14 Nisan on the Sabbath. *)
C20_Original ==
    [][lastSlowUpdate' # lastSlowUpdate =>
         /\ sunTimes'.biurChametz # NULL <=> BiurChametzDay'
         /\ "biurChametz" \in sunTimesElements' <=> BiurChametzDay']_vars

(* C30: once the hand has been placed, accumulatedRotation is congruent     *)
(* modulo 360 to the raw angle of the last update, which is                 *)
(* prevTotalDegrees, whatever the angles and however many turns.            *)
C30_RotationCongruentToAngle ==
    prevTotalDegrees # NULL =>
        /\ prevTotalDegrees >= 0 /\ prevTotalDegrees < 360 * DEG
        /\ (accumulatedRotation - prevTotalDegrees) % (360 * DEG) = 0

(* C30 happens: the hand has gone back through the 0/360 boundary more than *)
(* a full turn and is not at its raw angle                                  *)
C30_Witness ==
    /\ prevTotalDegrees # NULL
    /\ accumulatedRotation < -360 * DEG
    /\ accumulatedRotation # prevTotalDegrees

(* The map of the location picker: clicks at any longitude, then confirm *)

LonInputs == {-900, -541, -540, -539, -361, -360, -181, -180, -179, 0,
              35, 179, 180, 181, 359, 360, 361, 539, 540, 541, 900}

(* the map tab is opened *)
OpenMap ==
    /\ ~map
    /\ Commit(initMap(cur))
    /\ UNCHANGED <<now, geoPending, pending, issued, skew, hist, zq, zres>>

(* a click on the map, or the end of a drag of the marker, at latitude 32 *)
MapClick(lon) ==
    /\ map
    /\ Commit(updateMapCoords(cur, 32, lon))
    /\ UNCHANGED <<now, geoPending, pending, issued, skew, hist, zq, zres>>

(* map-confirm-btn: applyCustomLocation(customLat, customLon) starts *)
MapConfirm ==
    /\ customLat # NULL /\ customLat # 0
    /\ customLon # NULL /\ customLon # 0
    /\ ApplyStart([lat |-> customLat, lon |-> customLon])

NextLon ==
    \/ GeoSuccess
    \/ OpenMap
    \/ \E lon \in LonInputs : MapClick(lon)
    \/ MapConfirm
    \/ \E r \in pending : \E tz \in TimezoneAnswers(r.lat, r.lon) : ApplyComplete(r, tz)

SpecLon == Init /\ [][NextLon]_vars

(* C23 as stated: every longitude stored for the engine, the custom one of  *)
(* the picker and state.longitude, lies in [-180, 180).                     *)
C23_Original ==
    /\ customLon # NULL => (customLon >= -180 /\ customLon < 180)
    /\ longitude # NULL => (longitude >= -180 /\ longitude < 180)

(* C27 as stated: when the location change that completes names a place    *)
(* for which calcSunTimes raises the polar error, latitude, longitude and   *)
(* timezone are afterwards the values they had before the change (no other *)
(* request being in flight, these are the values held when it completes).   *)
C27_Original ==
    [][((\E r \in pending : \E tz \in TimezoneAnswers(r.lat, r.lon) :
            ApplyComplete(r, tz))
        /\ ~hist.overlap /\ hist'.pretestPolar) =>
         /\ latitude' = latitude
         /\ longitude' = longitude
         /\ timezone' = timezone]_vars

(* The omer count over the Hebrew dates from late Adar to the end of Sivan *)

OmerInputs == (Nisan1 - 10) .. (Nisan1 + 88)

InitOmer ==
    /\ InitClock /\ hdate \in OmerInputs /\ InitPickerDates
    /\ now = StartInstant
    /\ geoPending = TRUE
    /\ pending = {} /\ issued = 0 /\ skew = 0
    /\ hist = NoHistory
    /\ zq = NoQueries /\ zres = NoResult

(* setDate's omer step: the text of #omer becomes getOmerCount() || "" *)
ShowOmer ==
    /\ Commit([cur EXCEPT !.omer = getOmerCount(cur)])
    /\ UNCHANGED <<now, geoPending, pending, issued, skew, hist, zq, zres>>

NextOmer == ShowOmer

SpecOmer == InitOmer /\ [][NextOmer]_vars

OmerWindow(hd) ==
    \/ getMonth(hd) = 1 /\ getDate(hd) >= 16
    \/ getMonth(hd) = 2
    \/ getMonth(hd) = 3 /\ getDate(hd) <= 5

(* C21: an omer count is produced exactly for the Hebrew dates from 16      *)
(* Nisan through 5 Sivan, and it is the number of days since 15 Nisan, so   *)
(* that the counts run 1..49 in calendar order; the text shown is that      *)
(* count.                                                                   *)
C21_OmerWindowAndCount ==
    /\ getOmerCount(cur) # 0 <=> OmerWindow(hdate)
    /\ OmerWindow(hdate) =>
           /\ getOmerCount(cur) = hdate - (Nisan1 + 14)
           /\ getOmerCount(cur) \in 1 .. 49
    /\ omer # 0 => omer = getOmerCount(cur)

(* C21 happens: on 5 Sivan the count 49 is shown *)
C21_Witness ==
    /\ getMonth(hdate) = 3 /\ getDate(hdate) = 5
    /\ omer = 49

(* The date picker in Hebrew mode, around the tzeis of the day of the run *)

PickerYears == 5784 .. 5786
GoMonths == {0, 1, 12, 13, 14}
GoDays == {13, 20, 27}
GoYears == {5785}
ClickDays == {13, 20, 27}

(* a date the clock can be sent to: it exists, and its civil day lies       *)
(* within MaxPickBack days before and MaxPickAhead days after the run       *)
Dispatchable(h) ==
    /\ h.year = 5785 /\ h.month \in {12, 1, 2}
    /\ h.day \in 1 .. hcalDaysInMonth(h.month, h.year)
    /\ HDateGreg(HDateOf(h)) >= StartDay - MaxPickBack
    /\ HDateGreg(HDateOf(h)) <= StartDay + MaxPickAhead

InvalidMonth(m, y) == m < 1 \/ m > 13 \/ (m = 13 /\ ~isHebrewLeapYear(y))

InitPicker ==
    /\ InitWorld
    /\ now = StartInstant - ElapseMs
    /\ geoPending = TRUE
    /\ pending = {} /\ issued = 0 /\ skew = 0
    /\ hist = NoHistory
    /\ zq = NoQueries /\ zres = NoResult

(* the radio buttons of the picker *)
ModeChange(mode) ==
    /\ Commit(handleModeChange(cur, mode, now))
    /\ UNCHANGED <<now, geoPending, pending, issued, skew, hist, zq, zres>>

(* prev-month: in Hebrew mode the left arrow goes to the next month *)
PrevMonthButton ==
    /\ currentMode = "hebrew"
    /\ execNextMonth(cur).currentHebrewDate.year \in PickerYears
    /\ Commit(execNextMonth(cur))
    /\ hist' = [hist EXCEPT !.lastStep = "next",
                            !.stepFrom = [year |-> currentHebrewDate.year,
                                          month |-> currentHebrewDate.month]]
    /\ UNCHANGED <<now, geoPending, pending, issued, skew, zq, zres>>

(* next-month: in Hebrew mode the right arrow goes to the previous month *)
NextMonthButton ==
    /\ currentMode = "hebrew"
    /\ execPrevMonth(cur).currentHebrewDate.year \in PickerYears
    /\ Commit(execPrevMonth(cur))
    /\ hist' = [hist EXCEPT !.lastStep = "prev",
                            !.stepFrom = [year |-> currentHebrewDate.year,
                                          month |-> currentHebrewDate.month]]
    /\ UNCHANGED <<now, geoPending, pending, issued, skew, zq, zres>>

(* a click on a day of the month in view *)
DayClick(day) ==
    /\ currentMode = "hebrew"
    /\ Dispatchable([currentHebrewDate EXCEPT !.day = day])
    /\ LET r == handleDayClick(cur, day, now)
       IN /\ Commit(r.w)
          /\ hist' = [hist EXCEPT !.alert = r.alert, !.selected = r.selected]
    /\ skew' = 0
    /\ UNCHANGED <<now, geoPending, pending, issued, zq, zres>>

(* go-button with m, d, y in the inputs *)
GoButton(m, d, y) ==
    /\ currentMode = "hebrew"
    /\ InvalidMonth(m, y) \/ Dispatchable([year |-> y, month |-> m, day |-> d])
    /\ LET r == handleGoButton(cur, m, d, y, now)
       IN /\ Commit(r.w)
          /\ hist' = [hist EXCEPT !.alert = r.alert, !.selected = r.selected]
          /\ skew' = IF r.selected = NULL THEN skew ELSE 0
    /\ UNCHANGED <<now, geoPending, pending, issued, zq, zres>>

NextPicker ==
    \/ Elapse
    \/ GeoSuccess
    \/ RenderTick
    \/ \E mode \in {"gregorian", "hebrew"} : ModeChange(mode)
    \/ \E day \in ClickDays : DayClick(day)
    \/ \E m \in GoMonths : \E d \in GoDays : \E y \in GoYears : GoButton(m, d, y)

SpecPicker == InitPicker /\ [][NextPicker]_vars

(* The month arrows from every valid Hebrew date of three years *)

StepDays == {1, 15, 29, 30}

ValidHebrewDate(h) ==
    /\ h.month \in 1 .. 13
    /\ h.month = 13 => isHebrewLeapYear(h.year)
    /\ h.day >= 1 /\ h.day <= hcalDaysInMonth(h.month, h.year)

InitMonths ==
    /\ InitClock /\ hdate = NULL
    /\ currentMode = "hebrew"
    /\ currentGregorianDate = MidnightOf(StartDay, LocalTz)
    /\ currentHebrewDate \in
           {h \in [year : PickerYears, month : 1 .. 13, day : StepDays] :
               ValidHebrewDate(h)}
    /\ now = StartInstant
    /\ geoPending = TRUE
    /\ pending = {} /\ issued = 0 /\ skew = 0
    /\ hist = NoHistory
    /\ zq = NoQueries /\ zres = NoResult

NextMonths == PrevMonthButton \/ NextMonthButton

SpecMonths == InitMonths /\ [][NextMonths]_vars

(* C22: a Go button press with a month outside 1..13, or with month 13 for  *)
(* a year that is not a leap year, shows an alert and changes nothing: the  *)
(* picker's Hebrew and Gregorian dates stay, no calendarDateSelected event  *)
(* is dispatched, and the state of the virtual clock stays.                 *)
C22_InvalidMonthRejected ==
    [][(\E m \in GoMonths : \E d \in GoDays : \E y \in GoYears :
           GoButton(m, d, y) /\ InvalidMonth(m, y)) =>
         /\ hist'.alert # ""
         /\ hist'.selected = NULL
         /\ UNCHANGED <<currentHebrewDate, currentGregorianDate, currentMode>>
         /\ UNCHANGED <<daysAhead, offset, speedMultiplier, intervalId, timers,
                        date, hdate, sunTimes, lastSlowUpdate, displayDow>>]_vars

(* C22 happens: month 13 has been refused for 5785 after a date had been    *)
(* selected, and the picker still holds that date                           *)
C22_Witness ==
    /\ hist.alert = "Month 13 (Adar II) only exists in leap years."
    /\ hist.selected = NULL
    /\ currentHebrewDate = [year |-> 5785, month |-> 1, day |-> 20]
    /\ daysAhead # 0

(* C24 as stated: under the month arrows the picker's Hebrew date stays a   *)
(* date that exists: month in 1..13, month 13 only in a leap year, day      *)
(* between 1 and the length of the month.                                   *)
C24_Original == ValidHebrewDate(currentHebrewDate)

(* C25: from every (year, month) a step forward then back, and a step back  *)
(* then forward, return to the same year and month; a step changes the     *)
(* year exactly between Elul and Tishrei, by one, and never between Adar    *)
(* and Nisan.                                                               *)
C25_MonthStepsRoundTrip ==
    LET h == currentHebrewDate
        n == execNextMonth(cur).currentHebrewDate
        p == execPrevMonth(cur).currentHebrewDate
        np == execPrevMonth(execNextMonth(cur)).currentHebrewDate
        pn == execNextMonth(execPrevMonth(cur)).currentHebrewDate
    IN /\ np.year = h.year /\ np.month = h.month
       /\ pn.year = h.year /\ pn.month = h.month
       /\ n.year = IF h.month = 6 THEN h.year + 1 ELSE h.year
       /\ p.year = IF h.month = 7 THEN h.year - 1 ELSE h.year
       /\ hist.lastStep = "next" =>
              h.year = IF hist.stepFrom.month = 6
                       THEN hist.stepFrom.year + 1 ELSE hist.stepFrom.year
       /\ hist.lastStep = "prev" =>
              h.year = IF hist.stepFrom.month = 7
                       THEN hist.stepFrom.year - 1 ELSE hist.stepFrom.year

(* C25 happens: a step back has left Nisan 5785 for Adar of the same year *)
C25_Witness ==
    /\ hist.lastStep = "prev"
    /\ hist.stepFrom = [year |-> 5785, month |-> 1]
    /\ currentHebrewDate.year = 5785 /\ currentHebrewDate.month = 12

(* C26 as stated: when a Hebrew date H is selected in the picker, by a day  *)
(* click or by the Go button, and the clock recomputes its date, the        *)
(* Hebrew date it shows is H, before today's tzeis and after it.            *)
C26_Original ==
    [][(/\ \/ \E day \in ClickDays : DayClick(day)
           \/ \E m \in GoMonths : \E d \in GoDays : \E y \in GoYears : GoButton(m, d, y)
        /\ hist'.selected # NULL
        /\ lastSlowUpdate' # lastSlowUpdate) =>
         hdate' = HDateOf(currentHebrewDate')]_vars

FineTimers == {t \in timers : t.kind = "fine"}

(* C28: through speed steps, resets, day jumps and calendar selections at   *)
(* most one fine timer is active, and state.intervalId is null when there   *)
(* is none and the handle of the only one otherwise.                        *)
C28_OneFineTimer ==
    /\ Cardinality(FineTimers) <= 1
    /\ intervalId = NULL <=> FineTimers = {}
    /\ \A t \in FineTimers : t.id = intervalId

(* C28 happens: two speed steps have each started a timer, and one is left  *)
C28_Witness ==
    /\ speedMultiplier = 100
    /\ Cardinality(FineTimers) = 1
    /\ \A t \in FineTimers : t.id = intervalId

(* updateResetButton's shouldShow *)
ResetButtonShown == daysAhead # 0 \/ intervalId # NULL

(* C29: whenever state.intervalId is null the offset is 0, so a nonzero     *)
(* offset exists only while a timer handle is held and the reset button is  *)
(* shown.                                                                   *)
C29_NoOffsetWithoutTimer ==
    /\ intervalId = NULL => offset = 0
    /\ offset # 0 => (intervalId # NULL /\ ResetButtonShown)

(* C29 happens: a reset has cancelled the timer after the offset had        *)
(* accumulated, and the offset is back at 0                                 *)
C29_Witness ==
    /\ hist.resetOccurred /\ hist.dirtyReset
    /\ intervalId = NULL /\ offset = 0

====
